---- MODULE Spec2Model ----
(***************************************************************************)
(* Pose shadowing and calibration of the OpenGloves driver:                *)
(* ControllerPose (src/src/ControllerPose.cpp) and the configuration it is *)
(* constructed from (DeviceProvider::GetDeviceConfiguration).              *)
(*                                                                         *)
(* Numbers are fixed-point integers: lengths in centimetres, rotation      *)
(* matrices and quaternions restricted to the axis-aligned half turns, so  *)
(* that every product and square root of the pose math is an integer.      *)
(***************************************************************************)
EXTENDS Integers, Sequences, FiniteSets, TLC

VARIABLES
    m_poseConfiguration,     \* ControllerPose::m_poseConfiguration
    m_shadowControllerId,    \* ControllerPose::m_shadowControllerId (uint32)
    m_shadowDeviceOfRole,    \* ControllerPose::m_shadowDeviceOfRole
    m_controllerDiscoverer,  \* TRUE iff the discovery pipe was created and started
    m_isCalibrating,         \* Calibration: a session is open
    m_maintainPose,          \* Calibration: the frozen pose of the open session
    hostPoses,               \* the host's raw poses of the live devices
    lastOp,                  \* the operation that ran last
    ret,                     \* what the last operation returned (NoPose if void)
    read,                    \* the GetControllerPose read of the last operation
    derived,                 \* the derivation the last operation performed
    wasCalibrating,          \* m_isCalibrating when the last operation was called
    lastReport,              \* <<index carried by the last discovery report>>, or <<>>
    frame,                   \* the UpdatePose call in progress on the frame thread
    provider                 \* DeviceProvider: its hands and what it did with them

vars == <<m_poseConfiguration, m_shadowControllerId, m_shadowDeviceOfRole,
          m_controllerDiscoverer, m_isCalibrating, m_maintainPose, hostPoses,
          lastOp, ret, read, derived, wasCalibrating, lastReport, frame,
          provider>>

----------------------------------------------------------------------------
(* Bounds and program constants *)

\* number of devices whose raw pose the host changes over time (indices 1..MaxLive)
MaxLive == 3

\* vr::k_unMaxTrackedDeviceCount: size of the host pose snapshot
k_unMaxTrackedDeviceCount == 64

\* width of the unsigned device index in the model; the program's index is a
\* uint32, narrowed here because the checker's integers are 32-bit signed
IndexBits == 8

IndexRange == 2 ^ IndexBits

\* vr::k_unTrackedDeviceIndexInvalid: the all-ones index (0xFFFFFFFF in uint32)
k_unTrackedDeviceIndexInvalid == IndexRange - 1

\* conversion of a signed int to the unsigned index member (modular)
ToIndex(x) == x % IndexRange

TrackedControllerRole_LeftHand == "LeftHand"
TrackedControllerRole_RightHand == "RightHand"
Roles == {TrackedControllerRole_LeftHand, TrackedControllerRole_RightHand}

TrackingResult_Running_OK == "Running_OK"
TrackingResult_Uninitialized == "Uninitialized"

NoPose == [none |-> "pose"]
NoRead == [none |-> "read"]
NoDerive == [none |-> "derivation"]
NoReport == <<>>

\* no UpdatePose call is in progress
FrameIdle == [pc |-> "idle"]

\* the provider is not part of the run
NoProvider == [phase |-> "none"]

----------------------------------------------------------------------------
(* Rotation / offset math (Quaternion.h) *)

Vec3(x, y, z) == <<x, y, z>>
Quat(w, x, y, z) == [w |-> w, x |-> x, y |-> y, z |-> z]

\* a 3x4 pose matrix: rotation rows with the translation as 4th column
Matrix34(r, p) ==
    << <<r[1][1], r[1][2], r[1][3], p[1]>>,
       <<r[2][1], r[2][2], r[2][3], p[2]>>,
       <<r[3][1], r[3][2], r[3][3], p[3]>> >>

RotIdentity == << <<1, 0, 0>>, <<0, 1, 0>>, <<0, 0, 1>> >>
RotX180 == << <<1, 0, 0>>, <<0, -1, 0>>, <<0, 0, -1>> >>

\* drop the translation column
GetRotationMatrix(m) ==
    [i \in 1..3 |-> [j \in 1..3 |-> m[i][j]]]

\* matrix-vector product
MultiplyMatrix(r, v) ==
    [i \in 1..3 |-> r[i][1] * v[1] + r[i][2] * v[2] + r[i][3] * v[3]]

\* translation of the pose matrix plus a world-space vector
CombinePosition(m, v) ==
    [i \in 1..3 |-> m[i][4] + v[i]]

\* Hamilton product q * r
MultiplyQuaternion(q, r) ==
    Quat(q.w * r.w - q.x * r.x - q.y * r.y - q.z * r.z,
         q.w * r.x + q.x * r.w + q.y * r.z - q.z * r.y,
         q.w * r.y - q.x * r.z + q.y * r.w + q.z * r.x,
         q.w * r.z + q.x * r.y - q.y * r.x + q.z * r.w)

Max(a, b) == IF a >= b THEN a ELSE b
Abs(a) == IF a < 0 THEN -a ELSE a
ISqrt(n) == CHOOSE s \in 0..n : s * s <= n /\ (s + 1) * (s + 1) > n
CopySign(a, b) == IF b < 0 THEN -Abs(a) ELSE Abs(a)

\* orientation of a pose matrix as a quaternion
GetRotation(m) ==
    LET w == ISqrt(Max(0, 1 + m[1][1] + m[2][2] + m[3][3])) \div 2
        x == ISqrt(Max(0, 1 + m[1][1] - m[2][2] - m[3][3])) \div 2
        y == ISqrt(Max(0, 1 - m[1][1] + m[2][2] - m[3][3])) \div 2
        z == ISqrt(Max(0, 1 - m[1][1] - m[2][2] + m[3][3])) \div 2
    IN  Quat(w,
             CopySign(x, m[3][2] - m[2][3]),
             CopySign(y, m[1][3] - m[3][1]),
             CopySign(z, m[2][1] - m[1][2]))

QuatIdentity == Quat(1, 0, 0, 0)
QuatX180 == Quat(0, 1, 0, 0)
QuatY180 == Quat(0, 0, 1, 0)

----------------------------------------------------------------------------
(* Inputs *)

LiveIds == 1..MaxLive

\* vr::TrackedDevicePose_t
RawPose(valid, rot, pos, angular, linear) ==
    [bPoseIsValid |-> valid,
     mDeviceToAbsoluteTracking |-> Matrix34(rot, pos),
     vAngularVelocity |-> angular,
     vVelocity |-> linear]

RawPoseSet ==
    { RawPose(v, RotIdentity, Vec3(100, 200, 300), Vec3(1, 0, 0), Vec3(0, 2, 0)) :
          v \in BOOLEAN }
    \cup
    { RawPose(TRUE, RotX180, Vec3(0, 0, 0), Vec3(0, 0, 3), Vec3(4, 0, 0)) }

\* a snapshot slot of a device the host does not track
UntrackedPose ==
    RawPose(FALSE, RotIdentity, Vec3(0, 0, 0), Vec3(0, 0, 0), Vec3(0, 0, 0))

\* the offset part of a configuration: (offsetVector, angleOffsetQuaternion, poseOffset)
OffsetValues ==
    { <<Vec3(0, 0, 0), QuatIdentity, 0>>,
      <<Vec3(5, 0, 0), QuatX180, 1>>,
      <<Vec3(0, 5, 0), QuatY180, 2>> }

\* values of the controller_override_left / controller_override_right settings
OverrideSettings == {-1, 1, MaxLive, k_unMaxTrackedDeviceCount}

\* device indices a discovery report can carry
ReportIds == {0} \cup LiveIds \cup {k_unMaxTrackedDeviceCount, k_unTrackedDeviceIndexInvalid}

----------------------------------------------------------------------------
(* Configuration (DeviceProvider::GetDeviceConfiguration) *)

\* the override index read from settings: the setting only when the override is enabled
GetControllerIdOverride(controllerOverrideEnabled, setting) ==
    IF controllerOverrideEnabled THEN setting ELSE -1

\* VRPoseConfiguration_t as GetDeviceConfiguration builds it
GetPoseConfiguration(off, controllerOverrideEnabled, setting) ==
    [offsetVector |-> off[1],
     angleOffsetQuaternion |-> off[2],
     poseOffset |-> off[3],
     controllerOverrideEnabled |-> controllerOverrideEnabled,
     controllerIdOverride |-> GetControllerIdOverride(controllerOverrideEnabled, setting)]

ConfigInputs ==
    { GetPoseConfiguration(off, en, s) :
          off \in OffsetValues, en \in BOOLEAN, s \in OverrideSettings }

----------------------------------------------------------------------------
(* ControllerPose *)

\* m_shadowControllerId before the constructor body runs (member initialiser)
InitialShadowControllerId == k_unTrackedDeviceIndexInvalid

\* variant: the index starts at zero instead of the sentinel
ConstructorShadowControllerId_ZeroInit(cfg) ==
    IF cfg.controllerOverrideEnabled
    THEN ToIndex(cfg.controllerIdOverride)
    ELSE 0

\* the constructor's choice of the shadow index
ConstructorShadowControllerId(cfg) ==
    IF cfg.controllerOverrideEnabled
    THEN ToIndex(cfg.controllerIdOverride)
    ELSE InitialShadowControllerId

\* variant: the discovery pipe is started whatever the configuration
ConstructorStartsDiscoverer_Always(cfg) == TRUE

\* the constructor starts the discovery pipe only without an override
ConstructorStartsDiscoverer(cfg) == ~cfg.controllerOverrideEnabled

isRightHand == m_shadowDeviceOfRole = TrackedControllerRole_RightHand

\* ControllerPose::isCalibrating
isCalibrating == m_isCalibrating

\* the host's snapshot slot i, for i below k_unMaxTrackedDeviceCount
SnapshotSlot(i) == IF i \in LiveIds THEN hostPoses[i] ELSE UntrackedPose

\* GetControllerPose: the poses trackedDevicePoses[id] can yield. The read
\* is not guarded: past the end of the array it yields arbitrary memory.
GetControllerPose(id) ==
    IF id < k_unMaxTrackedDeviceCount THEN {SnapshotSlot(id)} ELSE RawPoseSet

\* vr::DriverPose_t newPose = {0} with the two w members set to 1
NewPose ==
    [qWorldFromDriverRotation |-> QuatIdentity,
     qDriverFromHeadRotation |-> QuatIdentity,
     vecPosition |-> Vec3(0, 0, 0),
     qRotation |-> Quat(0, 0, 0, 0),
     vecAngularVelocity |-> Vec3(0, 0, 0),
     vecVelocity |-> Vec3(0, 0, 0),
     poseIsValid |-> FALSE,
     deviceIsConnected |-> FALSE,
     result |-> "0",
     poseTimeOffset |-> 0]

\* variant: the offset vector is added without being rotated
ValidPose_UnrotatedOffset(cfg, controllerPose) ==
    LET controllerMatrix == controllerPose.mDeviceToAbsoluteTracking
    IN  [NewPose EXCEPT
            !.vecPosition = CombinePosition(controllerMatrix, cfg.offsetVector),
            !.qRotation = MultiplyQuaternion(GetRotation(controllerMatrix),
                                             cfg.angleOffsetQuaternion),
            !.vecAngularVelocity = controllerPose.vAngularVelocity,
            !.vecVelocity = controllerPose.vVelocity,
            !.poseIsValid = TRUE,
            !.deviceIsConnected = TRUE,
            !.result = TrackingResult_Running_OK,
            !.poseTimeOffset = cfg.poseOffset]

\* variant: the pose time offset is not stamped from the configuration
ValidPose_NoTimeOffset(cfg, controllerPose) ==
    LET controllerMatrix == controllerPose.mDeviceToAbsoluteTracking
        vectorOffset == MultiplyMatrix(GetRotationMatrix(controllerMatrix),
                                       cfg.offsetVector)
    IN  [NewPose EXCEPT
            !.vecPosition = CombinePosition(controllerMatrix, vectorOffset),
            !.qRotation = MultiplyQuaternion(GetRotation(controllerMatrix),
                                             cfg.angleOffsetQuaternion),
            !.vecAngularVelocity = controllerPose.vAngularVelocity,
            !.vecVelocity = controllerPose.vVelocity,
            !.poseIsValid = TRUE,
            !.deviceIsConnected = TRUE,
            !.result = TrackingResult_Running_OK]

\* UpdatePose, the branch of a valid controller pose
ValidPose(cfg, controllerPose) ==
    LET controllerMatrix == controllerPose.mDeviceToAbsoluteTracking
        controllerRotationMatrix == GetRotationMatrix(controllerMatrix)
        vectorOffset == MultiplyMatrix(controllerRotationMatrix, cfg.offsetVector)
        newControllerPosition == CombinePosition(controllerMatrix, vectorOffset)
    IN  [NewPose EXCEPT
            !.vecPosition = newControllerPosition,
            !.qRotation = MultiplyQuaternion(GetRotation(controllerMatrix),
                                             cfg.angleOffsetQuaternion),
            !.vecAngularVelocity = controllerPose.vAngularVelocity,
            !.vecVelocity = controllerPose.vVelocity,
            !.poseIsValid = TRUE,
            !.deviceIsConnected = TRUE,
            !.result = TrackingResult_Running_OK,
            !.poseTimeOffset = cfg.poseOffset]

\* variant: an untracked controller is reported as disconnected
UntrackedResult_Disconnected ==
    [NewPose EXCEPT
        !.poseIsValid = FALSE,
        !.deviceIsConnected = FALSE,
        !.result = TrackingResult_Uninitialized]

\* UpdatePose, the branch of an invalid controller pose
UntrackedResult ==
    [NewPose EXCEPT
        !.poseIsValid = FALSE,
        !.deviceIsConnected = TRUE,
        !.result = TrackingResult_Uninitialized]

\* variant: an unresolved index is reported as connected
DisconnectedResult_Connected ==
    [NewPose EXCEPT
        !.result = TrackingResult_Uninitialized,
        !.deviceIsConnected = TRUE]

\* UpdatePose, the branch of an unresolved shadow index
DisconnectedResult ==
    [NewPose EXCEPT
        !.result = TrackingResult_Uninitialized,
        !.deviceIsConnected = FALSE]

\* UpdatePose past the calibration test, given the controller pose it read
ShadowPose(cfg, controllerPose) ==
    IF controllerPose.bPoseIsValid
    THEN ValidPose(cfg, controllerPose)
    ELSE UntrackedResult

\* variant: the calibration test is missing, the pose is always computed live
UpdatePoseOutcomes_NoFreeze ==
    IF m_shadowControllerId # k_unTrackedDeviceIndexInvalid
    THEN { [pose |-> ShadowPose(m_poseConfiguration, p),
            read |-> [idx |-> m_shadowControllerId, pose |-> p]] :
               p \in GetControllerPose(m_shadowControllerId) }
    ELSE {[pose |-> DisconnectedResult, read |-> NoRead]}

\* UpdatePose: the set of (returned pose, read performed) outcomes
UpdatePoseOutcomes ==
    IF m_isCalibrating
    THEN {[pose |-> m_maintainPose, read |-> NoRead]}
    ELSE IF m_shadowControllerId # k_unTrackedDeviceIndexInvalid
         THEN { [pose |-> ShadowPose(m_poseConfiguration, p),
                 read |-> [idx |-> m_shadowControllerId, pose |-> p]] :
                    p \in GetControllerPose(m_shadowControllerId) }
         ELSE {[pose |-> DisconnectedResult, read |-> NoRead]}

----------------------------------------------------------------------------
(* Calibration *)

\* the derivation of a new configuration from (raw pose, prior configuration,
\* handedness): its geometry is not fixed, so every offset part is a possible
\* result; the override members are those of the prior configuration
DerivedConfigurations(controllerPose, cfg, rightHand) ==
    { [cfg EXCEPT !.offsetVector = off[1],
                  !.angleOffsetQuaternion = off[2],
                  !.poseOffset = off[3]] : off \in OffsetValues }

----------------------------------------------------------------------------
(* State machine *)

Init ==
    /\ m_poseConfiguration \in ConfigInputs
    /\ m_shadowDeviceOfRole \in Roles
    /\ m_shadowControllerId = ConstructorShadowControllerId(m_poseConfiguration)
    /\ m_controllerDiscoverer = ConstructorStartsDiscoverer(m_poseConfiguration)
    /\ m_isCalibrating = FALSE
    /\ m_maintainPose = NoPose
    /\ hostPoses \in [LiveIds -> RawPoseSet]
    /\ lastOp = "Constructor"
    /\ ret = NoPose
    /\ read = NoRead
    /\ derived = NoDerive
    /\ wasCalibrating = FALSE
    /\ lastReport = NoReport
    /\ frame = FrameIdle
    /\ provider = NoProvider

\* the per-frame pose request
UpdatePose ==
    /\ \E o \in UpdatePoseOutcomes :
          /\ ret' = o.pose
          /\ read' = o.read
    /\ lastOp' = "UpdatePose"
    /\ wasCalibrating' = m_isCalibrating
    /\ UNCHANGED <<frame, provider>>
    /\ derived' = NoDerive
    /\ UNCHANGED <<m_poseConfiguration, m_shadowControllerId, m_shadowDeviceOfRole,
                   m_controllerDiscoverer, m_isCalibrating, m_maintainPose,
                   hostPoses, lastReport>>

\* variant: the session is started with a default pose, not with UpdatePose()
StartCalibration_StoresDefault ==
    /\ m_maintainPose' = NewPose
    /\ read' = NoRead
    /\ m_isCalibrating' = TRUE
    /\ lastOp' = "StartCalibration"
    /\ wasCalibrating' = m_isCalibrating
    /\ UNCHANGED <<frame, provider>>
    /\ ret' = NoPose
    /\ derived' = NoDerive
    /\ UNCHANGED <<m_poseConfiguration, m_shadowControllerId, m_shadowDeviceOfRole,
                   m_controllerDiscoverer, hostPoses, lastReport>>

\* variant: the pose passed on is always computed from the live controller
StartCalibration_Resamples ==
    /\ \E o \in UpdatePoseOutcomes_NoFreeze :
          /\ m_maintainPose' = o.pose
          /\ read' = o.read
    /\ m_isCalibrating' = TRUE
    /\ lastOp' = "StartCalibration"
    /\ wasCalibrating' = m_isCalibrating
    /\ UNCHANGED <<frame, provider>>
    /\ ret' = NoPose
    /\ derived' = NoDerive
    /\ UNCHANGED <<m_poseConfiguration, m_shadowControllerId, m_shadowDeviceOfRole,
                   m_controllerDiscoverer, hostPoses, lastReport>>

\* StartCalibration: m_calibration->StartCalibration(UpdatePose())
StartCalibration ==
    /\ \E o \in UpdatePoseOutcomes :
          /\ m_maintainPose' = o.pose
          /\ read' = o.read
    /\ m_isCalibrating' = TRUE
    /\ lastOp' = "StartCalibration"
    /\ wasCalibrating' = m_isCalibrating
    /\ UNCHANGED <<frame, provider>>
    /\ ret' = NoPose
    /\ derived' = NoDerive
    /\ UNCHANGED <<m_poseConfiguration, m_shadowControllerId, m_shadowDeviceOfRole,
                   m_controllerDiscoverer, hostPoses, lastReport>>

\* Calibration::CancelCalibration: the session is closed and its pose discarded
CloseSession ==
    /\ m_isCalibrating' = FALSE
    /\ m_maintainPose' = NoPose

\* variant: the session is not told to cancel
CancelEffect_KeepsSession ==
    UNCHANGED <<m_isCalibrating, m_maintainPose, m_poseConfiguration,
                m_shadowControllerId, m_shadowDeviceOfRole,
                m_controllerDiscoverer, hostPoses, lastReport>>

\* ControllerPose::CancelCalibration delegates to the session
CancelEffect ==
    /\ CloseSession
    /\ UNCHANGED <<m_poseConfiguration, m_shadowControllerId, m_shadowDeviceOfRole,
                   m_controllerDiscoverer, hostPoses, lastReport>>

CancelCalibration ==
    /\ CancelEffect
    /\ lastOp' = "CancelCalibration"
    /\ wasCalibrating' = m_isCalibrating
    /\ UNCHANGED <<frame, provider>>
    /\ ret' = NoPose
    /\ read' = NoRead
    /\ derived' = NoDerive

\* variant: the test of the shadow index is missing
FinishCalibration_NoGuard ==
    /\ \E p \in GetControllerPose(m_shadowControllerId) :
       \E c \in DerivedConfigurations(p, m_poseConfiguration, isRightHand) :
           /\ m_poseConfiguration' = c
           /\ CloseSession
           /\ read' = [idx |-> m_shadowControllerId, pose |-> p]
           /\ derived' = [controllerPose |-> p,
                          poseConfiguration |-> m_poseConfiguration,
                          isRightHand |-> isRightHand,
                          result |-> c]
    /\ lastOp' = "FinishCalibration"
    /\ wasCalibrating' = m_isCalibrating
    /\ UNCHANGED <<frame, provider>>
    /\ ret' = NoPose
    /\ UNCHANGED <<m_shadowControllerId, m_shadowDeviceOfRole,
                   m_controllerDiscoverer, hostPoses, lastReport>>

\* variant: the derived configuration is computed and dropped
FinishCalibration_DropsResult ==
    /\ IF m_shadowControllerId = k_unTrackedDeviceIndexInvalid
       THEN /\ CloseSession
            /\ read' = NoRead
            /\ derived' = NoDerive
       ELSE \E p \in GetControllerPose(m_shadowControllerId) :
            \E c \in DerivedConfigurations(p, m_poseConfiguration, isRightHand) :
                /\ CloseSession
                /\ read' = [idx |-> m_shadowControllerId, pose |-> p]
                /\ derived' = [controllerPose |-> p,
                               poseConfiguration |-> m_poseConfiguration,
                               isRightHand |-> isRightHand,
                               result |-> c]
    /\ lastOp' = "FinishCalibration"
    /\ wasCalibrating' = m_isCalibrating
    /\ UNCHANGED <<frame, provider>>
    /\ ret' = NoPose
    /\ UNCHANGED <<m_poseConfiguration, m_shadowControllerId, m_shadowDeviceOfRole,
                   m_controllerDiscoverer, hostPoses, lastReport>>

FinishCalibration ==
    /\ IF m_shadowControllerId = k_unTrackedDeviceIndexInvalid
       THEN /\ CloseSession
            /\ read' = NoRead
            /\ derived' = NoDerive
            /\ UNCHANGED m_poseConfiguration
       ELSE \E p \in GetControllerPose(m_shadowControllerId) :
            \E c \in DerivedConfigurations(p, m_poseConfiguration, isRightHand) :
                /\ m_poseConfiguration' = c
                /\ CloseSession
                /\ read' = [idx |-> m_shadowControllerId, pose |-> p]
                /\ derived' = [controllerPose |-> p,
                               poseConfiguration |-> m_poseConfiguration,
                               isRightHand |-> isRightHand,
                               result |-> c]
    /\ lastOp' = "FinishCalibration"
    /\ wasCalibrating' = m_isCalibrating
    /\ UNCHANGED <<frame, provider>>
    /\ ret' = NoPose
    /\ UNCHANGED <<m_shadowControllerId, m_shadowDeviceOfRole,
                   m_controllerDiscoverer, hostPoses, lastReport>>

\* variant: only the first report is taken
DiscoveryCallback_FirstWins(controllerId) ==
    /\ m_shadowControllerId' =
          IF lastReport = NoReport THEN controllerId ELSE m_shadowControllerId
    /\ lastReport' = <<controllerId>>

\* the discovery callback: m_shadowControllerId = data.controllerId
DiscoveryCallback(controllerId) ==
    /\ m_shadowControllerId' = controllerId
    /\ lastReport' = <<controllerId>>

DiscoveryReport ==
    /\ m_controllerDiscoverer
    /\ \E id \in ReportIds : DiscoveryCallback(id)
    /\ lastOp' = "DiscoveryReport"
    /\ wasCalibrating' = m_isCalibrating
    /\ UNCHANGED <<frame, provider>>
    /\ ret' = NoPose
    /\ read' = NoRead
    /\ derived' = NoDerive
    /\ UNCHANGED <<m_poseConfiguration, m_shadowDeviceOfRole, m_controllerDiscoverer,
                   m_isCalibrating, m_maintainPose, hostPoses>>

\* the host moves, loses or regains a tracked device between two calls
HostUpdate ==
    /\ \E i \in LiveIds : \E p \in RawPoseSet :
          /\ p # hostPoses[i]
          /\ hostPoses' = [hostPoses EXCEPT ![i] = p]
    /\ lastOp' = "HostUpdate"
    /\ wasCalibrating' = m_isCalibrating
    /\ UNCHANGED <<frame, provider>>
    /\ ret' = NoPose
    /\ read' = NoRead
    /\ derived' = NoDerive
    /\ UNCHANGED <<m_poseConfiguration, m_shadowControllerId, m_shadowDeviceOfRole,
                   m_controllerDiscoverer, m_isCalibrating, m_maintainPose,
                   lastReport>>

Next ==
    \/ UpdatePose
    \/ StartCalibration
    \/ FinishCalibration
    \/ CancelCalibration
    \/ DiscoveryReport
    \/ HostUpdate

Spec == Init /\ [][Next]_vars

----------------------------------------------------------------------------
(* The pose math on a wider set of inputs: one overridden controller, *)
(* device 1, moved by the host between UpdatePose calls               *)

RotY180 == << <<-1, 0, 0>>, <<0, 1, 0>>, <<0, 0, -1>> >>
RotZ180 == << <<-1, 0, 0>>, <<0, -1, 0>>, <<0, 0, 1>> >>

MathRotations == {RotIdentity, RotX180, RotY180, RotZ180}
MathPositions == {Vec3(100, 200, 300), Vec3(0, 0, 0), Vec3(-10, 20, -30)}
MathOffsetVectors ==
    {Vec3(0, 0, 0), Vec3(5, 0, 0), Vec3(0, 5, 0), Vec3(0, 0, 5), Vec3(-3, 4, 7)}

MathRawPoses ==
    { RawPose(TRUE, r, p, Vec3(1, 0, 0), Vec3(0, 2, 0)) :
          r \in MathRotations, p \in MathPositions }

MathConfigs ==
    { GetPoseConfiguration(<<o, q, 0>>, TRUE, 1) :
          o \in MathOffsetVectors, q \in {QuatIdentity, QuatX180} }

InitMath ==
    /\ m_poseConfiguration \in MathConfigs
    /\ m_shadowDeviceOfRole = TrackedControllerRole_LeftHand
    /\ m_shadowControllerId = ConstructorShadowControllerId(m_poseConfiguration)
    /\ m_controllerDiscoverer = ConstructorStartsDiscoverer(m_poseConfiguration)
    /\ m_isCalibrating = FALSE
    /\ m_maintainPose = NoPose
    /\ \E p \in MathRawPoses : hostPoses = [i \in LiveIds |-> p]
    /\ lastOp = "Constructor"
    /\ ret = NoPose
    /\ read = NoRead
    /\ derived = NoDerive
    /\ wasCalibrating = FALSE
    /\ lastReport = NoReport
    /\ frame = FrameIdle
    /\ provider = NoProvider

\* the host moves the shadowed controller
MathHostMove ==
    /\ \E p \in MathRawPoses :
          /\ p # hostPoses[1]
          /\ hostPoses' = [hostPoses EXCEPT ![1] = p]
    /\ lastOp' = "HostUpdate"
    /\ wasCalibrating' = m_isCalibrating
    /\ UNCHANGED <<frame, provider>>
    /\ ret' = NoPose
    /\ read' = NoRead
    /\ derived' = NoDerive
    /\ UNCHANGED <<m_poseConfiguration, m_shadowControllerId, m_shadowDeviceOfRole,
                   m_controllerDiscoverer, m_isCalibrating, m_maintainPose,
                   lastReport>>

NextMath ==
    \/ UpdatePose
    \/ MathHostMove

SpecMath == InitMath /\ [][NextMath]_vars

----------------------------------------------------------------------------
(* UpdatePose statement by statement on the frame thread, while the      *)
(* discovery callback and the calibration entry points run on theirs:    *)
(* no member of ControllerPose is locked or atomic                       *)

\* UpdatePose returns: the call is over
FrameReturn(pose, rd, calibrating) ==
    /\ ret' = pose
    /\ read' = rd
    /\ lastOp' = "UpdatePose"
    /\ wasCalibrating' = calibrating
    /\ derived' = NoDerive
    /\ frame' = FrameIdle
    /\ UNCHANGED <<m_poseConfiguration, m_shadowControllerId, m_shadowDeviceOfRole,
                   m_controllerDiscoverer, m_isCalibrating, m_maintainPose,
                   hostPoses, lastReport, provider>>

\* UpdatePose goes on to its next statement
FrameStep(next) ==
    /\ frame' = next
    /\ UNCHANGED <<m_poseConfiguration, m_shadowControllerId, m_shadowDeviceOfRole,
                   m_controllerDiscoverer, m_isCalibrating, m_maintainPose,
                   hostPoses, lastOp, ret, read, derived, wasCalibrating,
                   lastReport, provider>>

\* lines 39-44: the calibration test
FrameEnter ==
    /\ frame.pc = "idle"
    /\ IF m_isCalibrating
       THEN FrameReturn(m_maintainPose, NoRead, TRUE)
       ELSE FrameStep([pc |-> "test"])

\* line 46: the test of the shadow index
FrameTestIndex ==
    /\ frame.pc = "test"
    /\ IF m_shadowControllerId # k_unTrackedDeviceIndexInvalid
       THEN FrameStep([pc |-> "fetch", tested |-> m_shadowControllerId])
       ELSE FrameReturn(DisconnectedResult, NoRead, FALSE)

\* lines 47, 31-35: GetControllerPose reads the shadow index again
FrameFetch ==
    /\ frame.pc = "fetch"
    /\ \E p \in GetControllerPose(m_shadowControllerId) :
          FrameStep([pc |-> "fetched",
                     tested |-> frame.tested,
                     readIdx |-> m_shadowControllerId,
                     controllerPose |-> p])

\* the read the call reports when it returns
FrameRead(configs) ==
    [idx |-> frame.readIdx,
     pose |-> frame.controllerPose,
     tested |-> frame.tested,
     configs |-> configs]

\* lines 49-66: the validity test, then the read of the offset vector
FrameOffsetVector ==
    /\ frame.pc = "fetched"
    /\ IF frame.controllerPose.bPoseIsValid
       THEN FrameStep([frame EXCEPT !.pc = "quat"]
                      @@ [offsetVector |-> m_poseConfiguration.offsetVector,
                          configs |-> {m_poseConfiguration}])
       ELSE FrameReturn(UntrackedResult, FrameRead({}), FALSE)

\* lines 70-80: the read of the offset quaternion
FrameQuaternion ==
    /\ frame.pc = "quat"
    /\ FrameStep([frame EXCEPT !.pc = "time",
                               !.configs = @ \cup {m_poseConfiguration}]
                 @@ [angleOffsetQuaternion |->
                        m_poseConfiguration.angleOffsetQuaternion])

\* lines 82-99: the read of the pose time offset, and the return
FrameFinish ==
    /\ frame.pc = "time"
    /\ FrameReturn(
          ValidPose([offsetVector |-> frame.offsetVector,
                     angleOffsetQuaternion |-> frame.angleOffsetQuaternion,
                     poseOffset |-> m_poseConfiguration.poseOffset],
                    frame.controllerPose),
          FrameRead(frame.configs \cup {m_poseConfiguration}),
          FALSE)

\* construction without override, so that the discovery pipe exists; the
\* host holds one valid raw pose for every live device and does not move them
InitConc ==
    /\ \E off \in OffsetValues :
          m_poseConfiguration = GetPoseConfiguration(off, FALSE, -1)
    /\ m_shadowDeviceOfRole = TrackedControllerRole_LeftHand
    /\ m_shadowControllerId = ConstructorShadowControllerId(m_poseConfiguration)
    /\ m_controllerDiscoverer = ConstructorStartsDiscoverer(m_poseConfiguration)
    /\ m_isCalibrating = FALSE
    /\ m_maintainPose = NoPose
    /\ \E p \in {q \in RawPoseSet : q.bPoseIsValid} :
          hostPoses = [i \in LiveIds |-> p]
    /\ lastOp = "Constructor"
    /\ ret = NoPose
    /\ read = NoRead
    /\ derived = NoDerive
    /\ wasCalibrating = FALSE
    /\ lastReport = NoReport
    /\ frame = FrameIdle
    /\ provider = NoProvider

NextConc ==
    \/ FrameEnter
    \/ FrameTestIndex
    \/ FrameFetch
    \/ FrameOffsetVector
    \/ FrameQuaternion
    \/ FrameFinish
    \/ StartCalibration
    \/ FinishCalibration
    \/ CancelCalibration
    \/ DiscoveryReport

SpecConc == InitConc /\ [][NextConc]_vars

----------------------------------------------------------------------------
(* DeviceProvider: Init and RunFrame over the two hands *)

VRInitError_None == "VRInitError_None"
VRInitError_Init_FileNotFound == "VRInitError_Init_FileNotFound"
VRInitError_Init_InterfaceNotFound == "VRInitError_Init_InterfaceNotFound"

\* what InitServerDriverContext can hand back
ContextResults == {VRInitError_None, VRInitError_Init_InterfaceNotFound}

\* Init has not returned yet
NoInitError == "not returned"

\* what the provider finds around it: the host's driver context (asked
\* twice, by the call and by the macro), the overlay executable, and the
\* two enabled settings
ProviderEnvironments ==
    [ contextCall : ContextResults,
      contextMacro : ContextResults,
      overlayStarts : BOOLEAN,
      left_enabled : BOOLEAN,
      right_enabled : BOOLEAN ]

\* success of CreateProcess on openglove_overlay.exe
CreateBackgroundProcess(env) == env.overlayStarts

\* the enabled flag of the configuration read for a role
ConfigurationEnabled(env, role) ==
    IF role = TrackedControllerRole_RightHand THEN env.right_enabled
    ELSE env.left_enabled

\* a provider that has only been constructed: both hand pointers null
ProviderConstructed(env) ==
    [ phase |-> "constructed",
      env |-> env,
      m_leftHand |-> FALSE,
      m_rightHand |-> FALSE,
      added |-> <<>>,
      initError |-> NoInitError,
      op |-> "Constructor",
      active |-> {},
      ran |-> <<>> ]

NoHands(error) ==
    [ initError |-> error, m_leftHand |-> FALSE, m_rightHand |-> FALSE,
      added |-> <<>> ]

\* the hands instantiated and the devices added once both preconditions hold
EnabledHands(env) ==
    [ initError |-> VRInitError_None,
      m_leftHand |-> ConfigurationEnabled(env, TrackedControllerRole_LeftHand),
      m_rightHand |-> ConfigurationEnabled(env, TrackedControllerRole_RightHand),
      added |->
          (IF ConfigurationEnabled(env, TrackedControllerRole_LeftHand)
           THEN <<TrackedControllerRole_LeftHand>> ELSE <<>>)
          \o
          (IF ConfigurationEnabled(env, TrackedControllerRole_RightHand)
           THEN <<TrackedControllerRole_RightHand>> ELSE <<>>) ]

\* variant: the overlay's failure is only logged
InitOutcome_IgnoresOverlayFailure(env) ==
    IF env.contextCall # VRInitError_None THEN NoHands(env.contextCall)
    ELSE IF env.contextMacro # VRInitError_None THEN NoHands(env.contextMacro)
    ELSE EnabledHands(env)

\* DeviceProvider::Init: the error returned, the hands instantiated and the
\* devices handed to TrackedDeviceAdded, in order
InitOutcome(env) ==
    IF env.contextCall # VRInitError_None THEN NoHands(env.contextCall)
    ELSE IF env.contextMacro # VRInitError_None THEN NoHands(env.contextMacro)
    ELSE IF ~CreateBackgroundProcess(env)
         THEN NoHands(VRInitError_Init_FileNotFound)
    ELSE EnabledHands(env)

\* the hands whose RunFrame one DeviceProvider::RunFrame invokes, in order,
\* when the hands in active answer IsActive with true
RunFrameCalls(p, active) ==
    (IF p.m_leftHand /\ TrackedControllerRole_LeftHand \in active
     THEN <<TrackedControllerRole_LeftHand>> ELSE <<>>)
    \o
    (IF p.m_rightHand /\ TrackedControllerRole_RightHand \in active
     THEN <<TrackedControllerRole_RightHand>> ELSE <<>>)

ProviderUnchanged ==
    UNCHANGED <<m_poseConfiguration, m_shadowControllerId,
                m_shadowDeviceOfRole, m_controllerDiscoverer,
                m_isCalibrating, m_maintainPose, hostPoses, lastOp, ret,
                read, derived, wasCalibrating, lastReport, frame>>

\* the host calls Init once on the constructed provider
ProviderInit ==
    /\ provider.phase = "constructed"
    /\ LET o == InitOutcome(provider.env)
       IN  provider' = [provider EXCEPT !.phase = "initialised",
                                        !.initError = o.initError,
                                        !.m_leftHand = o.m_leftHand,
                                        !.m_rightHand = o.m_rightHand,
                                        !.added = o.added,
                                        !.op = "Init",
                                        !.active = {},
                                        !.ran = <<>>]
    /\ ProviderUnchanged

\* the host calls RunFrame; each hand that exists is asked IsActive
ProviderRunFrame ==
    /\ provider.phase \in {"constructed", "initialised"}
    /\ \E active \in SUBSET Roles :
          provider' = [provider EXCEPT !.op = "RunFrame",
                                       !.active = active,
                                       !.ran = RunFrameCalls(provider, active)]
    /\ ProviderUnchanged

InitProvider ==
    /\ provider \in {ProviderConstructed(env) : env \in ProviderEnvironments}
    /\ m_poseConfiguration = GetPoseConfiguration(<<0, 0, 0>>, FALSE, -1)
    /\ m_shadowDeviceOfRole = TrackedControllerRole_LeftHand
    /\ m_shadowControllerId = ConstructorShadowControllerId(m_poseConfiguration)
    /\ m_controllerDiscoverer = ConstructorStartsDiscoverer(m_poseConfiguration)
    /\ m_isCalibrating = FALSE
    /\ m_maintainPose = NoPose
    /\ hostPoses = [i \in LiveIds |-> UntrackedPose]
    /\ lastOp = "Constructor"
    /\ ret = NoPose
    /\ read = NoRead
    /\ derived = NoDerive
    /\ wasCalibrating = FALSE
    /\ lastReport = NoReport
    /\ frame = FrameIdle

NextProvider ==
    \/ ProviderInit
    \/ ProviderRunFrame

SpecProvider == InitProvider /\ [][NextProvider]_vars

----------------------------------------------------------------------------
(* Properties *)

Resolved == m_shadowControllerId # k_unTrackedDeviceIndexInvalid
InSnapshot == m_shadowControllerId < k_unMaxTrackedDeviceCount
Returned == lastOp = "UpdatePose"
ReturnedLive == Returned /\ ~m_isCalibrating

\* the poses the non-calibrating path of UpdatePose can return in this state
LivePoses ==
    IF Resolved
    THEN { ShadowPose(m_poseConfiguration, p) :
              p \in GetControllerPose(m_shadowControllerId) }
    ELSE {DisconnectedResult}

\* C1: while a session is open the frozen pose never changes (whatever the
\* host, the discovery callback or a repeated StartCalibration do) and every
\* UpdatePose returns exactly that pose, without reading the host.
C1_FrozenPoseWhileCalibrating ==
    [][ /\ (m_isCalibrating /\ m_isCalibrating') =>
               m_maintainPose' = m_maintainPose
        /\ (m_isCalibrating /\ lastOp' = "UpdatePose") =>
               (ret' = m_maintainPose /\ read' = NoRead)
        /\ (~m_isCalibrating /\ lastOp' = "StartCalibration") =>
               (m_isCalibrating' /\ m_maintainPose' \in LivePoses) ]_vars

\* C1 witness: UpdatePose returned the frozen valid pose although the shadowed
\* controller has lost tracking since StartCalibration.
C1_Witness ==
    /\ Returned /\ m_isCalibrating /\ wasCalibrating
    /\ ret = m_maintainPose
    /\ ret.poseIsValid
    /\ m_shadowControllerId \in LiveIds
    /\ ~hostPoses[m_shadowControllerId].bPoseIsValid

\* C2 (as claimed): whenever the shadow index is the invalid sentinel, the
\* pose UpdatePose returned is disconnected and not valid, in any calibration
\* state.
C2_Original ==
    (Returned /\ ~Resolved) =>
        (~ret.deviceIsConnected /\ ~ret.poseIsValid)

\* C2 (amended): whenever the shadow index is the invalid sentinel and no
\* calibration session is open, the pose UpdatePose returned is disconnected
\* and not valid; with a session open it is the frozen pose.
C2_InvalidIndexDisconnected ==
    (Returned /\ ~Resolved) =>
        IF m_isCalibrating
        THEN ret = m_maintainPose
        ELSE ~ret.deviceIsConnected /\ ~ret.poseIsValid

\* C2 witness: UpdatePose ran outside calibration after discovery reports
\* left the index at the sentinel.
C2_Witness ==
    /\ ReturnedLive /\ ~Resolved
    /\ lastReport = <<k_unTrackedDeviceIndexInvalid>>
    /\ ~ret.deviceIsConnected /\ ~ret.poseIsValid

\* C3: outside calibration with a resolved index, the pose returned depends
\* on the validity flag of the raw pose read in this very call only: flag
\* false gives connected, not valid, Uninitialized; flag true gives
\* Running_OK. The raw pose read is the snapshot slot of the index.
C3_UntrackedIsConnectedUninitialized ==
    (ReturnedLive /\ Resolved) =>
        /\ read # NoRead
        /\ InSnapshot => read.pose = SnapshotSlot(m_shadowControllerId)
        /\ IF read.pose.bPoseIsValid
           THEN ret.result = TrackingResult_Running_OK
           ELSE /\ ret.deviceIsConnected
                /\ ~ret.poseIsValid
                /\ ret.result = TrackingResult_Uninitialized

\* C3 witness: UpdatePose found the resolved live controller untracked.
C3_Witness ==
    /\ ReturnedLive
    /\ m_shadowControllerId \in LiveIds
    /\ ~hostPoses[m_shadowControllerId].bPoseIsValid
    /\ ret.deviceIsConnected /\ ~ret.poseIsValid
    /\ ret.result = TrackingResult_Uninitialized

\* C4: outside calibration, a valid raw pose of the resolved index yields
\* poseIsValid, deviceIsConnected, Running_OK, the configuration's pose time
\* offset and the controller's velocities unmodified; Running_OK is returned
\* in no other case of the non-calibrating path.
C4_ValidPoseFields ==
    ReturnedLive =>
        /\ (Resolved /\ read # NoRead /\ read.pose.bPoseIsValid) =>
              /\ ret.poseIsValid
              /\ ret.deviceIsConnected
              /\ ret.result = TrackingResult_Running_OK
              /\ ret.poseTimeOffset = m_poseConfiguration.poseOffset
              /\ ret.vecAngularVelocity = read.pose.vAngularVelocity
              /\ ret.vecVelocity = read.pose.vVelocity
              /\ InSnapshot => read.pose = SnapshotSlot(m_shadowControllerId)
        /\ (ret.result = TrackingResult_Running_OK) =>
              (Resolved /\ read # NoRead /\ read.pose.bPoseIsValid)

\* C4 witness: a valid pose was returned with a non-zero pose time offset and
\* non-zero velocities.
C4_Witness ==
    /\ ReturnedLive
    /\ m_shadowControllerId \in LiveIds
    /\ hostPoses[m_shadowControllerId].bPoseIsValid
    /\ ret.result = TrackingResult_Running_OK
    /\ ret.poseTimeOffset = 2
    /\ ret.vecVelocity = Vec3(4, 0, 0)

\* C5: FinishCalibration with the index at the sentinel does exactly what
\* CancelCalibration does: the session is closed, the configuration and
\* everything else are unchanged, nothing is derived and the host snapshot
\* is not read.
C5_FinishWithoutIdentityCancels ==
    [][ (lastOp' = "FinishCalibration" /\ ~Resolved) =>
            /\ CancelEffect
            /\ ~m_isCalibrating'
            /\ m_poseConfiguration' = m_poseConfiguration
            /\ read' = NoRead
            /\ derived' = NoDerive ]_vars

\* C5 witness: FinishCalibration closed an open session with the index at
\* the sentinel.
C5_Witness ==
    /\ lastOp = "FinishCalibration"
    /\ wasCalibrating /\ ~m_isCalibrating
    /\ ~Resolved
    /\ read = NoRead /\ derived = NoDerive

\* C6: FinishCalibration with an open session and a resolved index closes
\* the session and installs the configuration derived from the raw pose the
\* host holds at the call for the index resolved at the call, the prior
\* configuration and the handedness; the installed configuration stays
\* until the next FinishCalibration, and every UpdatePose on the valid path
\* is computed with the configuration installed at its call.
C6_FinishInstallsDerivedConfiguration ==
    [][ /\ (lastOp' = "FinishCalibration" /\ m_isCalibrating /\ Resolved) =>
              /\ ~m_isCalibrating'
              /\ derived' # NoDerive
              /\ read' # NoRead
              /\ read'.idx = m_shadowControllerId
              /\ derived'.controllerPose = read'.pose
              /\ InSnapshot =>
                    derived'.controllerPose = SnapshotSlot(m_shadowControllerId)
              /\ derived'.poseConfiguration = m_poseConfiguration
              /\ derived'.isRightHand =
                    (m_shadowDeviceOfRole = TrackedControllerRole_RightHand)
              /\ m_poseConfiguration' = derived'.result
        /\ (lastOp' # "FinishCalibration") =>
              m_poseConfiguration' = m_poseConfiguration
        /\ (lastOp' = "UpdatePose" /\ ~m_isCalibrating
               /\ read' # NoRead /\ read'.pose.bPoseIsValid) =>
              ret' = ValidPose(m_poseConfiguration, read'.pose) ]_vars

\* C6 witness: FinishCalibration replaced the configuration by a different
\* one, derived from a live controller for the right hand.
C6_Witness ==
    /\ lastOp = "FinishCalibration"
    /\ wasCalibrating /\ ~m_isCalibrating
    /\ derived # NoDerive
    /\ derived.isRightHand
    /\ m_shadowControllerId \in LiveIds
    /\ derived.controllerPose = hostPoses[m_shadowControllerId]
    /\ m_poseConfiguration = derived.result
    /\ m_poseConfiguration # derived.poseConfiguration

\* C7: CancelCalibration with an open session closes it, discards the frozen
\* pose and leaves the configuration and the shadow index unchanged; the
\* next UpdatePose is computed from live input.
C7_CancelDiscardsSession ==
    [][ /\ (lastOp' = "CancelCalibration" /\ m_isCalibrating) =>
              /\ ~m_isCalibrating'
              /\ m_maintainPose' = NoPose
              /\ m_poseConfiguration' = m_poseConfiguration
              /\ m_shadowControllerId' = m_shadowControllerId
        /\ (lastOp = "CancelCalibration" /\ lastOp' = "UpdatePose") =>
              ret' \in LivePoses ]_vars

\* C7 witness: an open session of a resolved controller was cancelled.
C7_Witness ==
    /\ lastOp = "CancelCalibration"
    /\ wasCalibrating /\ ~m_isCalibrating
    /\ m_maintainPose = NoPose
    /\ Resolved

\* C8: with the override enabled the shadow index is the override index (as
\* an unsigned index), no discovery pipe exists and no report was taken;
\* with the override disabled the override index is -1, the pipe exists and
\* the shadow index is the sentinel until a report and the last report after.
C8_OverrideIsPermanent ==
    IF m_poseConfiguration.controllerOverrideEnabled
    THEN /\ m_shadowControllerId = ToIndex(m_poseConfiguration.controllerIdOverride)
         /\ ~m_controllerDiscoverer
         /\ lastReport = NoReport
    ELSE /\ m_poseConfiguration.controllerIdOverride = -1
         /\ m_controllerDiscoverer
         /\ m_shadowControllerId =
               IF lastReport = NoReport
               THEN k_unTrackedDeviceIndexInvalid
               ELSE lastReport[1]

\* C8 witness: with the override enabled, a calibration was finished and the
\* index is still the override index.
C8_Witness ==
    /\ m_poseConfiguration.controllerOverrideEnabled
    /\ m_poseConfiguration.controllerIdOverride = 1
    /\ m_shadowControllerId = 1
    /\ lastOp = "FinishCalibration"
    /\ derived # NoDerive

\* C9: without override, as long as no discovery report was delivered the
\* shadow index is the sentinel and every UpdatePose outside calibration
\* returns a disconnected, Uninitialized pose.
C9_DisconnectedUntilFirstReport ==
    (~m_poseConfiguration.controllerOverrideEnabled /\ lastReport = NoReport) =>
        /\ ~Resolved
        /\ ReturnedLive =>
              /\ ~ret.deviceIsConnected
              /\ ret.result = TrackingResult_Uninitialized
              /\ read = NoRead

\* C9 witness: UpdatePose ran outside calibration before any report.
C9_Witness ==
    /\ ~m_poseConfiguration.controllerOverrideEnabled
    /\ lastReport = NoReport
    /\ ReturnedLive
    /\ ~ret.deviceIsConnected
    /\ ret.result = TrackingResult_Uninitialized

C11_Original ==
    [][ (lastOp' = "UpdatePose") =>
          /\ UNCHANGED <<m_isCalibrating, m_maintainPose, m_shadowControllerId,
                         m_poseConfiguration, hostPoses>>
          /\ (lastOp = "UpdatePose" /\ ~m_isCalibrating) => ret' = ret ]_vars

\* C14: StartCalibration in state Idle opens the session and stores the pose
\* of the non-calibrating path at that instant: disconnected for an
\* unresolved index, connected-but-invalid for an untracked controller, the
\* offset-transformed pose otherwise; isCalibrating stays true until
\* FinishCalibration or CancelCalibration.
C14_StartStoresLivePose ==
    [][ /\ (~isCalibrating /\ lastOp' = "StartCalibration") =>
              /\ isCalibrating'
              /\ IF ~Resolved
                 THEN m_maintainPose' = DisconnectedResult /\ read' = NoRead
                 ELSE /\ read' # NoRead
                      /\ read'.idx = m_shadowControllerId
                      /\ InSnapshot =>
                            read'.pose = SnapshotSlot(m_shadowControllerId)
                      /\ m_maintainPose' =
                            IF read'.pose.bPoseIsValid
                            THEN ValidPose(m_poseConfiguration, read'.pose)
                            ELSE UntrackedResult
        /\ (isCalibrating
              /\ lastOp' \notin {"FinishCalibration", "CancelCalibration"}) =>
              isCalibrating' ]_vars

\* C14 witness: a session was opened from Idle and holds the transformed pose
\* of a tracked controller (position 100,200,300 moved by the offset 5,0,0).
C14_Witness ==
    /\ lastOp = "StartCalibration"
    /\ ~wasCalibrating /\ isCalibrating
    /\ m_maintainPose.result = TrackingResult_Running_OK
    /\ m_maintainPose.vecPosition = Vec3(105, 200, 300)
    /\ read # NoRead /\ read.pose = hostPoses[read.idx]

\* C16 (as claimed): every read of the host snapshot in GetControllerPose
\* uses an index below k_unMaxTrackedDeviceCount.
C16_Original ==
    (read # NoRead) => read.idx < k_unMaxTrackedDeviceCount

\* C17 (as claimed): the configuration changes only in a FinishCalibration
\* called with an open session and a resolved index.
C17_Original ==
    [][ (m_poseConfiguration' # m_poseConfiguration) =>
            (lastOp' = "FinishCalibration" /\ m_isCalibrating /\ Resolved) ]_vars

\* C18: StartCalibration with a session already open keeps the session open
\* and the frozen pose of the first StartCalibration; the host is not read.
C18_RepeatedStartKeepsPose ==
    [][ (m_isCalibrating /\ lastOp' = "StartCalibration") =>
            /\ m_isCalibrating'
            /\ m_maintainPose' = m_maintainPose
            /\ read' = NoRead ]_vars

\* C18 witness: StartCalibration was repeated in a session whose frozen pose
\* is none of the poses the live controller would give now.
C18_Witness ==
    /\ lastOp = "StartCalibration"
    /\ wasCalibrating /\ m_isCalibrating
    /\ m_maintainPose \notin LivePoses
    /\ read = NoRead

\* C19 (as claimed): FinishCalibration in an open session with a resolved
\* index whose raw pose is not valid derives nothing and leaves the
\* configuration unchanged.
C19_Original ==
    [][ (/\ lastOp' = "FinishCalibration"
         /\ m_isCalibrating /\ Resolved /\ InSnapshot
         /\ ~SnapshotSlot(m_shadowControllerId).bPoseIsValid) =>
            /\ derived' = NoDerive
            /\ m_poseConfiguration' = m_poseConfiguration ]_vars

\* C13: on the valid-pose path the returned position is the controller's
\* translation plus the offset vector multiplied by the controller's rotation
\* submatrix; a zero offset gives the controller's position, and identity
\* rotation at (100,200,300) with offset (5,0,0) gives (105,200,300)
\* (centimetres).
C13_PositionIsRotatedOffset ==
    (ReturnedLive /\ read # NoRead /\ read.pose.bPoseIsValid) =>
        LET m == read.pose.mDeviceToAbsoluteTracking
            o == m_poseConfiguration.offsetVector
        IN  /\ \A i \in 1..3 :
                  ret.vecPosition[i] =
                      m[i][4] + m[i][1] * o[1] + m[i][2] * o[2] + m[i][3] * o[3]
            /\ (o = <<0, 0, 0>>) =>
                  ret.vecPosition = <<m[1][4], m[2][4], m[3][4]>>
            /\ (/\ m = << <<1, 0, 0, 100>>, <<0, 1, 0, 200>>, <<0, 0, 1, 300>> >>
                /\ o = <<5, 0, 0>>) =>
                  ret.vecPosition = <<105, 200, 300>>

\* C13 witness: the controller is turned half around y at (-10,20,-30) and
\* the offset (-3,4,7) comes out as (3,4,-7): position (-7,24,-37).
C13_Witness ==
    /\ ReturnedLive
    /\ read # NoRead
    /\ read.pose.mDeviceToAbsoluteTracking =
          << <<-1, 0, 0, -10>>, <<0, 1, 0, 20>>, <<0, 0, -1, -30>> >>
    /\ m_poseConfiguration.offsetVector = <<-3, 4, 7>>
    /\ ret.vecPosition = <<-7, 24, -37>>

\* C12 (as claimed): an UpdatePose that returns a valid pose computed it with
\* the offset vector, the offset quaternion and the pose time offset of one
\* and the same configuration among those installed during the call.
C12_Original ==
    (lastOp = "UpdatePose" /\ ret.result = TrackingResult_Running_OK
        /\ read # NoRead /\ "configs" \in DOMAIN read) =>
        \E cfg \in read.configs : ret = ValidPose(cfg, read.pose)

\* C15 (as claimed): the index GetControllerPose uses to fetch the raw pose
\* is the value that passed the test against the sentinel in the same call,
\* and is never the sentinel.
C15_Original ==
    (frame.pc \in {"fetched", "quat", "time"}) =>
        /\ frame.readIdx = frame.tested
        /\ frame.readIdx # k_unTrackedDeviceIndexInvalid

\* C20: Init returns VRInitError_None exactly when the driver context and
\* the overlay process are both available, and then has instantiated and
\* added exactly the hands whose configuration is enabled (left before
\* right); otherwise it returns an error with no hand instantiated and no
\* device added.  A RunFrame after Init invokes RunFrame on exactly the
\* instantiated hands that answer IsActive.
ProviderHands == {r \in Roles :
                    IF r = TrackedControllerRole_RightHand
                    THEN provider.m_rightHand ELSE provider.m_leftHand}

ProviderSeqSet(q) == {q[i] : i \in 1..Len(q)}

C20_InitRegistersEnabledHands ==
    provider.phase = "initialised" =>
        LET env == provider.env
            available == /\ env.contextCall = VRInitError_None
                         /\ env.contextMacro = VRInitError_None
                         /\ env.overlayStarts
            enabled == {r \in Roles :
                          (r = TrackedControllerRole_LeftHand /\ env.left_enabled)
                          \/ (r = TrackedControllerRole_RightHand /\ env.right_enabled)}
        IN  /\ (provider.initError = VRInitError_None) <=> available
            /\ available =>
                  /\ ProviderHands = enabled
                  /\ ProviderSeqSet(provider.added) = enabled
                  /\ Len(provider.added) = Cardinality(enabled)
            /\ ~available =>
                  /\ ProviderHands = {}
                  /\ provider.added = <<>>
                  /\ provider.initError \in
                        {VRInitError_Init_FileNotFound,
                         VRInitError_Init_InterfaceNotFound}
            /\ provider.op = "RunFrame" =>
                  /\ ProviderSeqSet(provider.ran) = ProviderHands \cap provider.active
                  /\ Len(provider.ran) = Cardinality(ProviderHands \cap provider.active)

\* Init succeeded with only the left hand enabled, and a RunFrame in which
\* both hands would answer active ran the left hand alone
C20_Witness ==
    /\ provider.phase = "initialised"
    /\ provider.op = "RunFrame"
    /\ provider.initError = VRInitError_None
    /\ provider.env.left_enabled
    /\ ~provider.env.right_enabled
    /\ provider.added = <<TrackedControllerRole_LeftHand>>
    /\ provider.active = Roles
    /\ provider.ran = <<TrackedControllerRole_LeftHand>>

====
